---- MODULE Spec2Model ----
\* Model of itracker/training/validator.py: the Validator class that runs a
\* trained gaze model over validation batches, derives face geometry from the
\* face bitmask, accumulates the per-sample values and pickles a data matrix.
EXTENDS Integers, Sequences, FiniteSets, TLC

VARIABLES
  num_batches,        \* argument of validate()
  has_pose,           \* len(data_tensors) > 5: the input pipeline supplies pose
  pc,                 \* position of the control flow inside validate()
  i,                  \* loop variable of validate()
  percentage,         \* last reported percentage, as a numerator over num_batches
  total_error, total_coord_error, total_pose,
  total_face_area, total_face_pos, total_session_num,
  data_matrix,        \* the assembled matrix (<<>> before it is built)
  data_file,          \* content of the file at self._data_file
  err,                \* the exception in flight / raised ("none" when there is none)
  events,             \* externally visible effects, in order
  pulled,             \* the batches session.run evaluated, in order
  use_feeder,         \* the variant whose batch source is fed by feeder threads
  feeder,             \* state of the feeder threads
  masks,              \* input of __compute_face_pos (geometry specification)
  geometry            \* output of the analysis graph for `masks`

vars == <<num_batches, has_pose, pc, i, percentage, total_error,
          total_coord_error, total_pose, total_face_area, total_face_pos,
          total_session_num, data_matrix, data_file, err, events, pulled,
          use_feeder, feeder, masks, geometry>>

-----------------------------------------------------------------------------
\* Bounds of the model.

\* Side lengths of the bitmask (the program reshapes to 25 x 25).
MaskRows == 3
MaskCols == 3
\* Samples per batch.
BatchSize == 2
\* Largest num_batches run to completion; also the number of batches the
\* batch source can deliver in one run.
MaxBatches == 2
\* A num_batches large enough for the 0.01 threshold to lie between two
\* consecutive iterations' percentages.
LongRun == 9000

-----------------------------------------------------------------------------
\* Generic helpers for the array operations the program uses.

\* a[:n] for a sequence a and 0 <= n <= Len(a).
Prefix(a, n) == SubSeq(a, 1, n)

\* Concatenation of a sequence of sequences (list.extend of every element).
RECURSIVE Flatten(_)
Flatten(ss) == IF ss = <<>> THEN <<>> ELSE Head(ss) \o Flatten(Tail(ss))

\* tf.count_nonzero over a 1-D tensor.
count_nonzero(v) == Cardinality({k \in DOMAIN v : v[k] # 0})

\* tf.argmax(v, axis=0): 0-based index of the maximum; the kernel scans from
\* index 0 and replaces its candidate only by a strictly greater value, so
\* among equal maxima the smallest index is returned.
argmax(v) ==
  CHOOSE k \in 0 .. (Len(v) - 1) :
    /\ \A j \in DOMAIN v : v[j] <= v[k + 1]
    /\ \A j \in 1 .. k : v[j] < v[k + 1]

-----------------------------------------------------------------------------
\* Face geometry: Validator.__compute_face_pos and the face-area tensor.
\* A mask is a sequence of MaskRows rows, each a sequence of MaskCols cells;
\* mask[r][c] is the cell on axis-0 index r-1 and axis-1 index c-1.

AllMasks == [1 .. MaskRows -> [1 .. MaskCols -> {0, 1}]]

\* The variant of `columns` that reduces axis 0 instead of axis 1.
columns_axis0(mask) ==
  [c \in 1 .. Len(mask[1]) |->
     Cardinality({r \in 1 .. Len(mask) : mask[r][c] # 0})]

\* columns = tf.count_nonzero(mask, axis=[1]): axis 1 is reduced, so the
\* result has one entry per axis-0 index (one count per row of the mask).
columns(mask) == [r \in 1 .. Len(mask) |-> count_nonzero(mask[r])]

\* rows = tf.count_nonzero(mask, axis=[0]): axis 0 is reduced, so the result
\* has one entry per axis-1 index (one count per column of the mask).
rows(mask) ==
  [c \in 1 .. Len(mask[1]) |->
     Cardinality({r \in 1 .. Len(mask) : mask[r][c] # 0})]

\* The variant of block_index that takes the last of several equal maxima.
block_index_last(profile) ==
  CHOOSE k \in 0 .. (Len(profile) - 1) :
    /\ \A j \in DOMAIN profile : profile[j] <= profile[k + 1]
    /\ \A j \in (k + 2) .. Len(profile) : profile[j] < profile[k + 1]

\* block_index = tf.argmax(profile, axis=0)
block_index(profile) == argmax(profile)

\* chopped = profile[:block_index]; length = shape(chopped)[0];
\* pos = length - count_nonzero(chopped)
leading_zeros(profile) ==
  LET chopped == Prefix(profile, block_index(profile))
      length  == Len(chopped)
  IN  length - count_nonzero(chopped)

x_pos(mask) == leading_zeros(columns(mask))
y_pos(mask) == leading_zeros(rows(mask))

\* face_pos(mask) = tf.stack((x_pos, y_pos))
face_pos(mask) == <<x_pos(mask), y_pos(mask)>>

\* tf.map_fn(face_pos, masks): one result per mask, in the order of the batch.
compute_face_pos(ms) == [k \in DOMAIN ms |-> face_pos(ms[k])]

\* self.__face_area = tf.count_nonzero(mask, axis=[1, 2])
face_area(ms) ==
  [k \in DOMAIN ms |->
     Cardinality({rc \in (1 .. Len(ms[k])) \X (1 .. Len(ms[k][1])) :
                    ms[k][rc[1]][rc[2]] # 0})]

-----------------------------------------------------------------------------
\* The batch source and the analysis graph evaluated by session.run.

\* Bitmask with a single h x w block of ones whose top-left cell is at
\* 0-based row r0, column c0.
RectMask(r0, c0, h, w) ==
  [r \in 1 .. MaskRows |->
     [c \in 1 .. MaskCols |->
        IF r - 1 \in r0 .. (r0 + h - 1) /\ c - 1 \in c0 .. (c0 + w - 1)
        THEN 1 ELSE 0]]

\* The samples the input pipeline can deliver. dots is the label, predicted
\* the model's output, dist the value of metrics.distance_metric for the pair
\* (an external function, kept opaque), session_num a tensor of shape [1].
SampleSet ==
  { [dots |-> <<3, 4>>, predicted |-> <<0, 0>>, dist |-> 5,
     pose |-> <<10, 11, 12>>, mask |-> RectMask(1, 0, 1, 2),
     session_num |-> <<20>>],
    [dots |-> <<1, 1>>, predicted |-> <<8, 9>>, dist |-> 6,
     pose |-> <<13, 14, 15>>, mask |-> RectMask(0, 1, 2, 2),
     session_num |-> <<21>>] }

\* A batch is BatchSize samples in a fixed order.
Batches == [1 .. BatchSize -> SampleSet]

\* pose = tf.zeros((N, 3)) unless the pipeline supplies a sixth tensor.
PoseTensor(batch) ==
  [j \in DOMAIN batch |-> IF has_pose THEN batch[j].pose ELSE <<0, 0, 0>>]

\* self.__coord_error = labels["dots"] - predicted_gaze
CoordErrorTensor(batch) ==
  [j \in DOMAIN batch |->
     <<batch[j].dots[1] - batch[j].predicted[1],
       batch[j].dots[2] - batch[j].predicted[2]>>]

\* The six values one session.run call returns for a batch.
SessionRun(batch) ==
  LET ms == [j \in DOMAIN batch |-> batch[j].mask]
  IN  [error       |-> [j \in DOMAIN batch |-> batch[j].dist],
       coord_error |-> CoordErrorTensor(batch),
       pose        |-> PoseTensor(batch),
       face_area   |-> face_area(ms),
       face_pos    |-> compute_face_pos(ms),
       session_num |-> [j \in DOMAIN batch |-> batch[j].session_num]]

-----------------------------------------------------------------------------
\* Progress reporting.

\* new_percentage = float(i) / num_batches * 100, as a numerator over
\* num_batches.
NewPercentage(k) == k * 100

\* The variant of Advanced that reports on every iteration.
AdvancedAlways(new, old, n) == (new - old) * 100 >= 0

\* new_percentage - percentage > 0.01, both numerators over n.
Advanced(new, old, n) == (new - old) * 100 > n

\* "%.2f" % new_percentage: the percentage rounded to the nearest hundredth,
\* returned as the number of hundredths. (No num_batches of the model puts a
\* percentage exactly halfway between two hundredths.)
Format2f(new, n) == (2 * new * 100 + n) \div (2 * n)

\* An entry of `events`.
Event(kind, value) == [ev |-> kind, arg |-> value]

-----------------------------------------------------------------------------
\* Assembly of the data matrix (numpy).

\* np.stack(vectors, axis=1): entry [r][s] is vectors[s][r].
StackAxis1(vectors) ==
  [r \in 1 .. Len(vectors[1]) |-> [s \in DOMAIN vectors |-> vectors[s][r]]]

\* np.expand_dims(np.asarray(scalars), 0): a single row.
ExpandDims0(scalars) == <<scalars>>

\* m.T for a 2-D array.
Transpose(m) ==
  [c \in 1 .. Len(m[1]) |-> [r \in DOMAIN m |-> m[r][c]]]

\* np.concatenate(blocks, axis=0)
ConcatenateAxis0(blocks) == Flatten(blocks)

\* The variant of BuildMatrix that concatenates pose before coord_error.
BuildMatrixPoseFirst(e, ce, po, fa, fp, sn) ==
  Transpose(ConcatenateAxis0(<<ExpandDims0(e), StackAxis1(po), StackAxis1(ce),
                               ExpandDims0(fa), StackAxis1(fp),
                               Transpose(sn)>>))

\* data_matrix of validate(): the rows error, coord_error (2), pose (3),
\* face_area, face_pos (2), session_num, concatenated and transposed.
BuildMatrix(e, ce, po, fa, fp, sn) ==
  LET pose_stack        == StackAxis1(po)
      coord_error_stack == StackAxis1(ce)
      error_row         == ExpandDims0(e)
      face_area_row     == ExpandDims0(fa)
      face_pos_stack    == StackAxis1(fp)
      session_num_row   == Transpose(sn)
  IN  Transpose(ConcatenateAxis0(<<error_row, coord_error_stack, pose_stack,
                                   face_area_row, face_pos_stack,
                                   session_num_row>>))

-----------------------------------------------------------------------------
\* The pickle stream and the destination file.

\* pickle.dump(matrix, file): the stream written for a 2-D array, as chunks:
\* the array header with the shape, the rows of data, the STOP opcode.
Serialize(m) ==
  <<[op |-> "array", shape |-> <<Len(m), Len(m[1])>>]>>
  \o [s \in DOMAIN m |-> [op |-> "data", row |-> m[s]]]
  \o <<[op |-> "stop"]>>

\* What the destination holds before the run: the result of an earlier run.
OldFile == Serialize(<<<<1, 0, 0, 0, 0, 0, 1, 0, 0, 1>>>>)

-----------------------------------------------------------------------------
\* Initial states.

\* validate() has not started; the accumulators are the empty lists of its
\* first lines and the destination holds an earlier result.
InitValidate ==
  /\ pc = "init"
  /\ i = 0
  /\ percentage = 0
  /\ total_error = <<>>
  /\ total_coord_error = <<>>
  /\ total_pose = <<>>
  /\ total_face_area = <<>>
  /\ total_face_pos = <<>>
  /\ total_session_num = <<>>
  /\ data_matrix = <<>>
  /\ data_file = OldFile
  /\ err = "none"
  /\ events = <<>>
  /\ pulled = <<>>

Init ==
  /\ num_batches \in (1 .. MaxBatches) \cup {LongRun}
  /\ has_pose \in BOOLEAN
  /\ use_feeder \in BOOLEAN
  /\ feeder = IF use_feeder THEN "idle" ELSE "absent"
  /\ InitValidate
  /\ masks = <<>>
  /\ geometry = <<>>

-----------------------------------------------------------------------------
\* The feeder threads of the variant with a background-fed batch source.

\* The feeder can deliver batches: it is running, or the batch source has no
\* feeder to start.
FeederReady == feeder \in {"absent", "running"}

\* The variant of FeederReleased that lets control leave with the feeder
\* still running.
FeederNotChecked == TRUE

\* No feeder thread is running: the scope of the feeder has been left.
FeederReleased == feeder \in {"absent", "joined"}

\* Start the feeder threads before the loop begins.
StartFeeder ==
  /\ pc = "init"
  /\ feeder = "idle"
  /\ feeder' = "running"
  /\ UNCHANGED <<num_batches, has_pose, pc, i, percentage, total_error,
                 total_coord_error, total_pose, total_face_area,
                 total_face_pos, total_session_num, data_matrix, data_file,
                 err, events, pulled, use_feeder, masks, geometry>>

\* Request the feeder threads to stop and join them, after the loop has ended
\* or while an exception leaves it.
StopFeeder ==
  /\ pc \in {"after_loop", "unwind"}
  /\ feeder = "running"
  /\ feeder' = "joined"
  /\ UNCHANGED <<num_batches, has_pose, pc, i, percentage, total_error,
                 total_coord_error, total_pose, total_face_area,
                 total_face_pos, total_session_num, data_matrix, data_file,
                 err, events, pulled, use_feeder, masks, geometry>>

-----------------------------------------------------------------------------
\* validate(num_batches)

\* Entry: the accumulators are created empty and percentage = 0.0.
Begin ==
  /\ pc = "init"
  /\ FeederReady
  /\ pc' = "loop"
  /\ UNCHANGED <<num_batches, has_pose, i, percentage, total_error,
                 total_coord_error, total_pose, total_face_area,
                 total_face_pos, total_session_num, data_matrix, data_file,
                 err, events, pulled, use_feeder, feeder, masks, geometry>>

\* The variant of LoopNext that leaves the loop one iteration early.
LoopNextShort(k) == IF k + 1 >= num_batches THEN "after_loop" ELSE "loop"

\* for i in range(0, num_batches): where control goes once k iterations are
\* complete.
LoopNext(k) == IF k >= num_batches THEN "after_loop" ELSE "loop"

\* The variant of Extend that puts the new values in front.
ExtendFront(total, values) == values \o total

\* total.extend(values)
Extend(total, values) == total \o values

\* The variant of RunFailed that skips the failed batch and goes on.
RunFailedSkip ==
  /\ pc' = LoopNext(i + 1)
  /\ i' = i + 1
  /\ err' = err

\* An exception raised by session.run is not caught: it leaves the loop.
RunFailed ==
  /\ pc' = "unwind"
  /\ i' = i
  /\ err' = "session"

\* One iteration of the loop: session.run succeeds, the six results are
\* appended, progress is reported when it advanced.
RunBatch ==
  /\ pc = "loop"
  /\ i < MaxBatches
  /\ FeederReady
  /\ \E batch \in Batches :
       LET out == SessionRun(batch)
           new_percentage == NewPercentage(i)
           report == Advanced(new_percentage, percentage, num_batches)
       IN  /\ pulled' = Append(pulled, batch)
           /\ total_error' = Extend(total_error, out.error)
           /\ total_coord_error' = Extend(total_coord_error, out.coord_error)
           /\ total_pose' = Extend(total_pose, out.pose)
           /\ total_face_area' = Extend(total_face_area, out.face_area)
           /\ total_face_pos' = Extend(total_face_pos, out.face_pos)
           /\ total_session_num' = Extend(total_session_num, out.session_num)
           /\ percentage' = IF report THEN new_percentage ELSE percentage
           /\ events' = events \o <<Event("run", i)>> \o
                          (IF report
                           THEN <<Event("progress",
                                        Format2f(new_percentage, num_batches))>>
                           ELSE <<>>)
  /\ i' = i + 1
  /\ pc' = LoopNext(i + 1)
  /\ UNCHANGED <<num_batches, has_pose, data_matrix, data_file, err,
                 use_feeder, feeder, masks, geometry>>

\* One iteration of the loop in which pulling the batch or running inference
\* fails: session.run raises.
RunBatchFail ==
  /\ pc = "loop"
  /\ FeederReady
  /\ events' = Append(events, Event("run_failed", i))
  /\ RunFailed
  /\ UNCHANGED <<num_batches, has_pose, percentage, total_error,
                 total_coord_error, total_pose, total_face_area,
                 total_face_pos, total_session_num, data_matrix, data_file,
                 pulled, use_feeder, feeder, masks, geometry>>

\* After the loop: print "Saving data matrix..." and assemble the matrix.
SaveMatrix ==
  /\ pc = "after_loop"
  /\ FeederReleased
  /\ events' = Append(events, Event("saving", 0))
  /\ data_matrix' = BuildMatrix(total_error, total_coord_error, total_pose,
                                total_face_area, total_face_pos,
                                total_session_num)
  /\ pc' = "open"
  /\ UNCHANGED <<num_batches, has_pose, i, percentage, total_error,
                 total_coord_error, total_pose, total_face_area,
                 total_face_pos, total_session_num, data_file, err, pulled,
                 use_feeder, feeder, masks, geometry>>

\* data_file = open(self._data_file, "wb"): the file is truncated.
OpenFile ==
  /\ pc = "open"
  /\ data_file' = <<>>
  /\ events' = Append(events, Event("open", 0))
  /\ pc' = "dump"
  /\ UNCHANGED <<num_batches, has_pose, i, percentage, total_error,
                 total_coord_error, total_pose, total_face_area,
                 total_face_pos, total_session_num, data_matrix, err, pulled,
                 use_feeder, feeder, masks, geometry>>

\* open() raises: the destination cannot be opened for writing.
OpenFileFail ==
  /\ pc = "open"
  /\ err' = "open"
  /\ pc' = "unwind"
  /\ UNCHANGED <<num_batches, has_pose, i, percentage, total_error,
                 total_coord_error, total_pose, total_face_area,
                 total_face_pos, total_session_num, data_matrix, data_file,
                 events, pulled, use_feeder, feeder, masks, geometry>>

\* The variant of WriteFailed that swallows the error and goes on.
WriteFailedSwallow(what, next) ==
  /\ err' = err
  /\ pc' = next

\* An IOError of the write is not caught: it leaves validate().
WriteFailed(what, next) ==
  /\ err' = what
  /\ pc' = "unwind"

\* pickle.dump(data_matrix, data_file) writes the whole stream.
Dump ==
  /\ pc = "dump"
  /\ data_file' = Serialize(data_matrix)
  /\ events' = Append(events, Event("dump", 0))
  /\ pc' = "close"
  /\ UNCHANGED <<num_batches, has_pose, i, percentage, total_error,
                 total_coord_error, total_pose, total_face_area,
                 total_face_pos, total_session_num, data_matrix, err, pulled,
                 use_feeder, feeder, masks, geometry>>

\* pickle.dump raises after writing only the first k chunks of the stream.
DumpFail ==
  /\ pc = "dump"
  /\ \E k \in 0 .. (Len(Serialize(data_matrix)) - 1) :
       data_file' = Prefix(Serialize(data_matrix), k)
  /\ events' = Append(events, Event("write_failed", 0))
  /\ WriteFailed("dump", "close")
  /\ UNCHANGED <<num_batches, has_pose, i, percentage, total_error,
                 total_coord_error, total_pose, total_face_area,
                 total_face_pos, total_session_num, data_matrix, pulled,
                 use_feeder, feeder, masks, geometry>>

\* data_file.close() flushes the buffered stream and returns.
Close ==
  /\ pc = "close"
  /\ events' = Append(events, Event("close", 0))
  /\ pc' = "returned"
  /\ UNCHANGED <<num_batches, has_pose, i, percentage, total_error,
                 total_coord_error, total_pose, total_face_area,
                 total_face_pos, total_session_num, data_matrix, data_file,
                 err, pulled, use_feeder, feeder, masks, geometry>>

\* data_file.close() raises: of the buffered stream only the first k chunks
\* reached the file (all of them when the error came after the last write).
CloseFail ==
  /\ pc = "close"
  /\ \E k \in 0 .. Len(data_file) : data_file' = Prefix(data_file, k)
  /\ events' = Append(events, Event("write_failed", 1))
  /\ WriteFailed("close", "returned")
  /\ UNCHANGED <<num_batches, has_pose, i, percentage, total_error,
                 total_coord_error, total_pose, total_face_area,
                 total_face_pos, total_session_num, data_matrix, pulled,
                 use_feeder, feeder, masks, geometry>>

\* The exception leaves validate() and reaches the caller.
Propagate ==
  /\ pc = "unwind"
  /\ FeederReleased
  /\ pc' = "raised"
  /\ UNCHANGED <<num_batches, has_pose, i, percentage, total_error,
                 total_coord_error, total_pose, total_face_area,
                 total_face_pos, total_session_num, data_matrix, data_file,
                 err, events, pulled, use_feeder, feeder, masks, geometry>>

Next ==
  \/ StartFeeder
  \/ Begin
  \/ RunBatch
  \/ RunBatchFail
  \/ StopFeeder
  \/ SaveMatrix
  \/ OpenFile
  \/ OpenFileFail
  \/ Dump
  \/ DumpFail
  \/ Close
  \/ CloseFail
  \/ Propagate

Spec == Init /\ [][Next]_vars

-----------------------------------------------------------------------------
\* The analysis graph applied to arbitrary bitmasks.

InitGeometry ==
  /\ masks \in [1 .. 1 -> AllMasks]
  /\ geometry = <<>>
  /\ num_batches = 1
  /\ has_pose = FALSE
  /\ use_feeder = FALSE
  /\ feeder = "absent"
  /\ InitValidate

\* _build_analysis_graph evaluated on `masks`: face area and face position of
\* every mask of the batch.
Analyse ==
  /\ geometry = <<>>
  /\ masks # <<>>
  /\ geometry' = [k \in DOMAIN masks |->
                    [face_area |-> face_area(masks)[k],
                     face_pos  |-> compute_face_pos(masks)[k]]]
  /\ UNCHANGED <<num_batches, has_pose, pc, i, percentage, total_error,
                 total_coord_error, total_pose, total_face_area,
                 total_face_pos, total_session_num, data_matrix, data_file,
                 err, events, pulled, use_feeder, feeder, masks>>

NextGeometry == Analyse

SpecGeometry == InitGeometry /\ [][NextGeometry]_vars

-----------------------------------------------------------------------------
\* Vocabulary of the properties.

\* Whether pickle.load accepts a file content: the stream is a complete
\* pickle of a 2-D array (header, as many rows as the shape says, STOP).
ValidPickle(stream) ==
  /\ Len(stream) >= 2
  /\ stream[1].op = "array"
  /\ stream[Len(stream)].op = "stop"
  /\ Len(stream) = stream[1].shape[1] + 2
  /\ \A k \in 2 .. (Len(stream) - 1) :
       /\ stream[k].op = "data"
       /\ Len(stream[k].row) = stream[1].shape[2]

\* pickle.load of a valid file content: the array.
Load(stream) == [s \in 1 .. (Len(stream) - 2) |-> stream[s + 1].row]

\* Positions of the events of one kind.
EventsOf(kind) == {idx \in DOMAIN events : events[idx].ev = kind}

\* The row the data matrix should hold for sample j of a batch.
SampleRow(batch, j) ==
  LET out == SessionRun(batch)
  IN  <<out.error[j]>> \o out.coord_error[j] \o out.pose[j]
      \o <<out.face_area[j]>> \o out.face_pos[j] \o out.session_num[j]

\* Number of entries of a profile that are zero, among those strictly before
\* the first index at which the profile attains its maximum.
ZerosBeforeFirstMax(profile) ==
  LET first == CHOOSE k \in DOMAIN profile :
                 /\ \A j \in DOMAIN profile : profile[j] <= profile[k]
                 /\ \A j \in 1 .. (k - 1) : profile[j] # profile[k]
  IN  Cardinality({j \in 1 .. (first - 1) : profile[j] = 0})

\* Occupied cells of each column of a mask (the mask reduced over its rows).
PerColumnCounts(mask) ==
  [c \in 1 .. MaskCols |->
     Cardinality({r \in 1 .. MaskRows : mask[r][c] = 1})]

\* Occupied cells of each row of a mask (the mask reduced over its columns).
PerRowCounts(mask) ==
  [r \in 1 .. MaskRows |->
     Cardinality({c \in 1 .. MaskCols : mask[r][c] = 1})]

\* Rows and columns of a mask that hold an occupied cell.
OccupiedRows(mask) ==
  {r \in 1 .. MaskRows : \E c \in 1 .. MaskCols : mask[r][c] = 1}

OccupiedCols(mask) ==
  {c \in 1 .. MaskCols : \E r \in 1 .. MaskRows : mask[r][c] = 1}

Least(S) == CHOOSE x \in S : \A y \in S : x <= y

Greatest(S) == CHOOSE x \in S : \A y \in S : y <= x

\* The occupied cells of the mask are exactly the h x w block whose top-left
\* cell is at 0-based row r0, column c0.
IsBlock(mask, r0, c0, h, w) ==
  \A r \in 1 .. MaskRows, c \in 1 .. MaskCols :
    mask[r][c] = 1 <=>
      (r - 1 \in r0 .. (r0 + h - 1) /\ c - 1 \in c0 .. (c0 + w - 1))

ZeroMask == [r \in 1 .. MaskRows |-> [c \in 1 .. MaskCols |-> 0]]

\* The hundredths printed by the progress lines, in order of printing.
PrintedBefore(idx) ==
  LET earlier == {j \in EventsOf("progress") : j < idx}
  IN  IF earlier = {} THEN 0
      ELSE events[CHOOSE j \in earlier : \A l \in earlier : l <= j].arg

\* The unrounded percentage (numerator over num_batches) last reported before
\* position idx of the events: that of the iteration whose line was printed
\* last, 0 when none was.
ReportedBefore(idx) ==
  LET earlier == {j \in EventsOf("progress") : j < idx}
  IN  IF earlier = {} THEN 0
      ELSE 100 * events[(CHOOSE j \in earlier : \A l \in earlier : l <= j) - 1].arg

\* The run at position idx printed a progress line.
Printed(idx) ==
  /\ idx + 1 \in DOMAIN events
  /\ events[idx + 1].ev = "progress"

\* a / n exceeds b / n by more than 0.01.
MoreThanHundredth(a, b, n) == 100 * (a - b) > n

-----------------------------------------------------------------------------
\* Properties.

\* C1: after each completed iteration every one of the six accumulator lists
\* holds (number of completed iterations) * BatchSize entries and the entry at
\* k*BatchSize + j is the value of sample j of batch k; the persisted matrix
\* has num_batches * BatchSize rows, in batch order, then within-batch order.
C1_AccumulatorsInBatchOrder ==
  /\ Len(pulled) = i
  /\ Len(total_error) = i * BatchSize
  /\ Len(total_coord_error) = i * BatchSize
  /\ Len(total_pose) = i * BatchSize
  /\ Len(total_face_area) = i * BatchSize
  /\ Len(total_face_pos) = i * BatchSize
  /\ Len(total_session_num) = i * BatchSize
  /\ \A k \in DOMAIN pulled : \A j \in 1 .. BatchSize :
       LET out == SessionRun(pulled[k])
           at  == (k - 1) * BatchSize + j
       IN  /\ total_error[at] = out.error[j]
           /\ total_coord_error[at] = out.coord_error[j]
           /\ total_pose[at] = out.pose[j]
           /\ total_face_area[at] = out.face_area[j]
           /\ total_face_pos[at] = out.face_pos[j]
           /\ total_session_num[at] = out.session_num[j]
  /\ pc = "returned" =>
       /\ ValidPickle(data_file)
       /\ Len(Load(data_file)) = num_batches * BatchSize
       /\ \A k \in 1 .. num_batches : \A j \in 1 .. BatchSize :
            Load(data_file)[(k - 1) * BatchSize + j] = SampleRow(pulled[k], j)

C1_Witness ==
  /\ pc = "returned"
  /\ num_batches >= 2
  /\ pulled[1] # pulled[2]
  /\ pulled[1][1] # pulled[1][2]

\* C2: the persisted matrix of a successful run over T samples has T rows of
\* 10 columns and row s is, in this order, error, coord_error x and y, pose
\* x, y and z, face_area, face_pos x and y, session_num of sample s.
C2_ColumnOrder ==
  pc = "returned" =>
    /\ ValidPickle(data_file)
    /\ LET m == Load(data_file)
           T == Len(total_error)
       IN  /\ Len(m) = T
           /\ \A s \in 1 .. T :
                /\ Len(m[s]) = 10
                /\ m[s][1] = total_error[s]
                /\ m[s][2] = total_coord_error[s][1]
                /\ m[s][3] = total_coord_error[s][2]
                /\ m[s][4] = total_pose[s][1]
                /\ m[s][5] = total_pose[s][2]
                /\ m[s][6] = total_pose[s][3]
                /\ m[s][7] = total_face_area[s]
                /\ m[s][8] = total_face_pos[s][1]
                /\ m[s][9] = total_face_pos[s][2]
                /\ m[s][10] = total_session_num[s][1]

C2_Witness ==
  /\ pc = "returned"
  /\ has_pose
  /\ Len(data_matrix) >= 2
  /\ data_matrix[1] # data_matrix[2]

C4_ZeroMaskGeometry ==
  \A k \in DOMAIN masks :
    masks[k] = ZeroMask =>
      /\ geometry = <<>> => ENABLED Analyse
      /\ geometry # <<>> =>
           /\ geometry[k].face_area = 0
           /\ geometry[k].face_pos = <<0, 0>>

C4_Witness ==
  /\ geometry # <<>>
  /\ masks[1] = ZeroMask

C6_FailureAborts ==
  \A idx \in EventsOf("run_failed") :
    /\ idx = Len(events)
    /\ EventsOf("saving") = {}
    /\ EventsOf("open") = {}
    /\ data_file = OldFile
    /\ pc \in {"unwind", "raised"}
    /\ err = "session"

C6_Witness ==
  /\ pc = "raised"
  /\ err = "session"
  /\ Len(pulled) >= 1

\* C7: with a feeder-fed batch source the feeder is started before the first
\* batch is pulled, and it has been stopped and joined whenever validate has
\* returned or raised.
C7_FeederScoped ==
  use_feeder =>
    /\ (EventsOf("run") \cup EventsOf("run_failed")) # {} => feeder # "idle"
    /\ pc = "loop" => feeder = "running"
    /\ pc \in {"returned", "raised"} => feeder = "joined"

C7_Witness ==
  /\ use_feeder
  /\ pc = "raised"
  /\ err = "session"
  /\ feeder = "joined"

\* C8: when the write of the destination fails after the open, the failure
\* reaches the caller and the destination holds either the completely
\* serialized matrix or a content that does not load.
C8_NoValidPartialFile ==
  EventsOf("write_failed") # {} =>
    /\ pc \in {"unwind", "raised"}
    /\ err \in {"dump", "close"}
    /\ \/ data_file = Serialize(data_matrix)
       \/ ~ValidPickle(data_file)

C8_Witness ==
  /\ pc = "raised"
  /\ err = "dump"
  /\ Len(data_file) >= 2

\* C9 as stated: the x component of the face position is the number of
\* zeros before the first maximum of the per-column counts, the y component
\* that of the per-row counts.
C9_XFromColumnsYFromRows ==
  \A k \in DOMAIN geometry :
    /\ geometry[k].face_pos[1] = ZerosBeforeFirstMax(PerColumnCounts(masks[k]))
    /\ geometry[k].face_pos[2] = ZerosBeforeFirstMax(PerRowCounts(masks[k]))

\* C10: a successful run made exactly num_batches session.run calls, one per
\* iteration in order; every run and progress line precedes the single
\* "Saving data matrix..." line, which precedes the single write of the
\* destination; nothing is pulled after that line.
C10_RunsThenSavingThenWrite ==
  /\ Cardinality(EventsOf("saving")) <= 1
  /\ Cardinality(EventsOf("dump")) <= 1
  /\ \A s \in EventsOf("saving") :
       /\ \A idx \in EventsOf("run") \cup EventsOf("run_failed")
                       \cup EventsOf("progress") : idx < s
       /\ \A idx \in EventsOf("open") \cup EventsOf("dump")
                       \cup EventsOf("close") : idx > s
  /\ (EventsOf("open") \cup EventsOf("dump")) # {} => EventsOf("saving") # {}
  /\ pc = "returned" =>
       /\ Cardinality(EventsOf("run")) = num_batches
       /\ \A idx \in EventsOf("run") :
            events[idx].arg = Cardinality({m \in EventsOf("run") : m < idx})
       /\ Cardinality(EventsOf("saving")) = 1
       /\ Cardinality(EventsOf("dump")) = 1

C10_Witness ==
  /\ pc = "returned"
  /\ num_batches >= 2
  /\ EventsOf("progress") # {}

====
